---- MODULE Spec2Model ----
(***************************************************************************)
(* State-machine model of the Sudoku board of src/Sudoku/sdk_board.py:     *)
(* the Tile (value, candidates, listeners), the Board (tiles, groups) and  *)
(* the operations set_value, remove_candidates, set_tiles, __str__,        *)
(* is_consistent, naked_single and solve; of alphacode of                  *)
(* src/Week_1/alphacode.py; and of BitField.insert and BitField.extract of *)
(* src/bitfields/bitfield.py and src/bitfields2/bitfield.py.               *)
(*                                                                         *)
(* sdk_config (CHOICES, UNKNOWN, ROOT, NROWS, NCOLS) is imported by the    *)
(* source but is not part of the source tree; the model instantiates it    *)
(* with the 4x4 configuration (ROOT = 2, symbols "1".."4", "." for unset). *)
(* A Python string is modelled as a sequence of one-character strings.     *)
(***************************************************************************)
EXTENDS Integers, Sequences, FiniteSets, TLC

VARIABLES
    tiles,      \* Board.tiles: position -> [value, candidates]
    groups,     \* Board.groups: list of lists of tile positions
    listeners,  \* Listenable.listeners of every tile: position -> list
    events,     \* notify(event) deliveries made by the last call, in order
    call,       \* the last call: [op, pos, arg]
    ret,        \* what the last call returned ("True", "False", "None") or raised
    pre,        \* Board.tiles as they were when the last call started (for
                \* set_tiles with a given argument: as it left them)
    pc,         \* "idle", or "solve" while Board.solve is in its loop
    progress,   \* local variable progress of Board.solve
    passes,     \* number of naked_single passes the last solve has made
    entry,      \* Board.tiles as they were when the last solve was called
                \* (progress, passes, entry are forgotten at the next call)
    prev,       \* the call made on the tile before the last call on it
    ac,         \* the last alphacode call: its argument, its locals pin and
                \* mnemonic, its position and its result
    bf          \* the last BitField call: the field, the arguments, the result

vars == <<tiles, groups, listeners, events, call, ret, pre, pc, progress, passes, entry,
          prev, ac, bf>>

(***************************************************************************)
(* Configuration (sdk_config)                                              *)
(***************************************************************************)
ROOT == 2

NROWS == ROOT * ROOT

NCOLS == ROOT * ROOT

CHOICES == {"1", "2", "3", "4"}

UNKNOWN == "."

\* A symbol that is neither in CHOICES nor UNKNOWN.
BadSymbol == "x"

Pos == (0 .. NROWS - 1) \X (0 .. NCOLS - 1)

NoPos == <<-1, -1>>

(***************************************************************************)
(* Bounds of the model                                                     *)
(***************************************************************************)
\* Longest listener list a tile is given.
MaxListeners == 2

ListenerIds == {"L1", "L2"}

\* The tile the tile-level calls are made on (tiles are independent objects).
ProbePos == <<0, 0>>

Bool(b) == IF b THEN "True" ELSE "False"

(***************************************************************************)
(* Listenable                                                              *)
(***************************************************************************)
\* Faulty variant of notify_all: the listeners are notified last to first.
notify_all_reversed(pos) ==
    [i \in 1 .. Len(listeners[pos]) |->
        [slot |-> Len(listeners[pos]) + 1 - i,
         listener |-> listeners[pos][Len(listeners[pos]) + 1 - i],
         tile |-> pos, kind |-> "TileChanged"]]

\* notify_all(TileEvent(tile, TileChanged)): one notify per registered
\* listener, in list order.  slot is the index in the listener list.
notify_all(pos) ==
    [i \in 1 .. Len(listeners[pos]) |->
        [slot |-> i, listener |-> listeners[pos][i], tile |-> pos,
         kind |-> "TileChanged"]]

(***************************************************************************)
(* Tile                                                                    *)
(***************************************************************************)
\* Faulty variant of set_value: listeners are notified only when the value
\* changes.
set_value_notify_on_change(pos, value) ==
    [tile   |-> IF value \in CHOICES
                THEN [value |-> value, candidates |-> {value}]
                ELSE [value |-> UNKNOWN, candidates |-> CHOICES],
     events |-> IF tiles[pos].value = (IF value \in CHOICES THEN value ELSE UNKNOWN)
                THEN <<>> ELSE notify_all(pos)]

\* Faulty variant of set_value: the candidates are not reset to the full
\* alphabet when the tile is unset.
set_value_no_reset(pos, value) ==
    [tile   |-> IF value \in CHOICES
                THEN [value |-> value, candidates |-> {value}]
                ELSE [value |-> UNKNOWN, candidates |-> {value}],
     events |-> notify_all(pos)]

\* Tile.set_value: the new tile and the deliveries it makes.
set_value(pos, value) ==
    [tile   |-> IF value \in CHOICES
                THEN [value |-> value, candidates |-> {value}]
                ELSE [value |-> UNKNOWN, candidates |-> CHOICES],
     events |-> notify_all(pos)]

\* Faulty variant of remove_candidates: the reduced set is stored only when
\* it is a singleton.
remove_candidates_keep(pos, t, used_values) ==
    LET new_candidates == t.candidates \ used_values
    IN  IF new_candidates = t.candidates
        THEN [tile |-> t, events |-> <<>>, ret |-> FALSE]
        ELSE LET sv == IF Cardinality(new_candidates) = 1
                       THEN set_value(pos, CHOOSE c \in new_candidates : TRUE)
                       ELSE [tile |-> t, events |-> <<>>]
             IN  [tile   |-> sv.tile,
                  events |-> sv.events \o notify_all(pos),
                  ret    |-> TRUE]

\* Faulty variant of remove_candidates: the closing notify_all is missing.
remove_candidates_no_notify(pos, t, used_values) ==
    LET new_candidates == t.candidates \ used_values
    IN  IF new_candidates = t.candidates
        THEN [tile |-> t, events |-> <<>>, ret |-> FALSE]
        ELSE LET sv == IF Cardinality(new_candidates) = 1
                       THEN set_value(pos, CHOOSE c \in new_candidates : TRUE)
                       ELSE [tile   |-> [t EXCEPT !.candidates = new_candidates],
                             events |-> <<>>]
             IN  [tile |-> sv.tile, events |-> sv.events, ret |-> TRUE]

\* Faulty variant of remove_candidates: the value is not set when a single
\* candidate is left.
remove_candidates_no_set_value(pos, t, used_values) ==
    LET new_candidates == t.candidates \ used_values
    IN  IF new_candidates = t.candidates
        THEN [tile |-> t, events |-> <<>>, ret |-> FALSE]
        ELSE [tile   |-> [t EXCEPT !.candidates = new_candidates],
              events |-> notify_all(pos),
              ret    |-> TRUE]

\* Tile.remove_candidates on tile t at pos.
remove_candidates(pos, t, used_values) ==
    LET new_candidates == t.candidates \ used_values
    IN  IF new_candidates = t.candidates
        THEN [tile |-> t, events |-> <<>>, ret |-> FALSE]
        ELSE LET sv == IF Cardinality(new_candidates) = 1
                       THEN set_value(pos, CHOOSE c \in new_candidates : TRUE)
                       ELSE [tile   |-> [t EXCEPT !.candidates = new_candidates],
                             events |-> <<>>]
             IN  [tile   |-> sv.tile,
                  events |-> sv.events \o notify_all(pos),
                  ret    |-> TRUE]

\* Tile.could_be
could_be(t, value) == value \in t.candidates

(***************************************************************************)
(* Board construction                                                      *)
(***************************************************************************)
\* Tile(row, col): value UNKNOWN through set_value, no listeners.
NewTiles == [p \in Pos |-> [value |-> UNKNOWN, candidates |-> CHOICES]]

BlockGroup(block_row, block_col) ==
    [k \in 1 .. ROOT * ROOT |->
        <<(ROOT * block_row) + ((k - 1) \div ROOT),
          (ROOT * block_col) + ((k - 1) % ROOT)>>]

RowGroup(row) == [k \in 1 .. NCOLS |-> <<row, k - 1>>]

\* Faulty variant of the column loop: self.tiles[row][col], a row again.
ColGroup_row_again(row) == [k \in 1 .. NCOLS |-> <<row, k - 1>>]

\* columns.append(self.tiles[col][row]) for col in range(NCOLS)
ColGroup(row) == [k \in 1 .. NCOLS |-> <<k - 1, row>>]

BuildGroups ==
    [b \in 1 .. ROOT * ROOT |-> BlockGroup((b - 1) \div ROOT, (b - 1) % ROOT)]
    \o [r \in 1 .. NROWS |-> RowGroup(r - 1)]
    \o [c \in 1 .. NROWS |-> ColGroup(c - 1)]

(***************************************************************************)
(* Board operations                                                        *)
(***************************************************************************)
RECURSIVE SetTilesFrom(_, _, _)
\* The loops of Board.set_tiles from cell k = row_num * NCOLS + col_num on.
\* tile_values[row_num][col_num] raises IndexError past the end of a list
\* or string; the tiles set before that stay set.
SetTilesFrom(st, tile_values, k) ==
    IF k = NROWS * NCOLS
    THEN [tiles |-> st.tiles, events |-> st.events, ret |-> "None"]
    ELSE LET row_num == k \div NCOLS
             col_num == k % NCOLS
         IN  IF \/ row_num + 1 > Len(tile_values)
                \/ col_num + 1 > Len(tile_values[row_num + 1])
             THEN [tiles |-> st.tiles, events |-> st.events, ret |-> "IndexError"]
             ELSE LET r == set_value(<<row_num, col_num>>,
                                     tile_values[row_num + 1][col_num + 1])
                  IN  SetTilesFrom(
                          [tiles  |-> [st.tiles EXCEPT ![<<row_num, col_num>>] = r.tile],
                           events |-> st.events \o r.events],
                          tile_values, k + 1)

\* Board.set_tiles
set_tiles(ts, tile_values) ==
    SetTilesFrom([tiles |-> ts, events |-> <<>>], tile_values, 0)

RECURSIVE JoinStrings(_, _)
\* sep.join(strings), strings being sequences of characters
JoinStrings(strings, sep) ==
    IF Len(strings) = 0 THEN <<>>
    ELSE IF Len(strings) = 1 THEN strings[1]
    ELSE strings[1] \o sep \o JoinStrings(Tail(strings), sep)

RECURSIVE SplitString(_, _, _)
\* text.split(sep): the pieces of text between occurrences of the character
\* sep; cur is the piece being read.
SplitString(text, sep, cur) ==
    IF Len(text) = 0 THEN <<cur>>
    ELSE IF Head(text) = sep
         THEN <<cur>> \o SplitString(Tail(text), sep, <<>>)
         ELSE SplitString(Tail(text), sep, Append(cur, Head(text)))

\* Faulty variant of __str__: the tiles are read column by column.
Board_str_transposed(ts) ==
    JoinStrings(
        [r \in 1 .. NROWS |->
            JoinStrings([c \in 1 .. NCOLS |-> <<ts[<<c - 1, r - 1>>].value>>], <<>>)],
        <<"\n">>)

\* Board.__str__ : the rows' values joined, the rows joined by newlines.
Board_str(ts) ==
    JoinStrings(
        [r \in 1 .. NROWS |->
            JoinStrings([c \in 1 .. NCOLS |-> <<ts[<<r - 1, c - 1>>].value>>], <<>>)],
        <<"\n">>)

RECURSIVE IcTiles(_, _, _, _)
\* The inner loop of Board.is_consistent over one group, from tile i on.
IcTiles(ts, group, used_symbols, i) ==
    IF i > Len(group) THEN TRUE
    ELSE LET v == ts[group[i]].value
         IN  IF v \in CHOICES
             THEN IF v \in used_symbols
                  THEN FALSE
                  ELSE IcTiles(ts, group, used_symbols \cup {v}, i + 1)
             ELSE IcTiles(ts, group, used_symbols, i + 1)

RECURSIVE IcGroups(_, _)
\* The outer loop of Board.is_consistent, from group g on.
IcGroups(ts, g) ==
    IF g > Len(groups) THEN TRUE
    ELSE IF ~IcTiles(ts, groups[g], {}, 1) THEN FALSE
    ELSE IcGroups(ts, g + 1)

\* Faulty variant of is_consistent: the first group is skipped.
is_consistent_skip_first(ts) == IcGroups(ts, 2)

\* Board.is_consistent
is_consistent(ts) == IcGroups(ts, 1)

\* Faulty variant of used_values: the values of the whole board, not of the
\* group.
UsedValues_whole_board(ts, group) ==
    {ts[q].value : q \in Pos} \cap CHOICES

\* The first inner loop of Board.naked_single: the values used in a group.
UsedValues(ts, group) ==
    {ts[group[i]].value : i \in 1 .. Len(group)} \cap CHOICES

RECURSIVE NsTiles(_, _, _, _)
\* The second inner loop of Board.naked_single over one group, from tile i.
NsTiles(st, group, used_values, i) ==
    IF i > Len(group) THEN st
    ELSE LET pos == group[i]
             t == st.tiles[pos]
         IN  IF t.value = UNKNOWN /\ Cardinality(used_values) > 0
             THEN LET r == remove_candidates(pos, t, used_values)
                  IN  NsTiles(
                          [tiles  |-> [st.tiles EXCEPT ![pos] = r.tile],
                           events |-> st.events \o r.events,
                           count  |-> st.count + (IF r.ret THEN 1 ELSE 0)],
                          group, used_values, i + 1)
             ELSE NsTiles(st, group, used_values, i + 1)

RECURSIVE NsGroups(_, _)
\* The outer loop of Board.naked_single, from group g on.
NsGroups(st, g) ==
    IF g > Len(groups) THEN st
    ELSE NsGroups(NsTiles(st, groups[g], UsedValues(st.tiles, groups[g]), 1), g + 1)

\* Faulty variant of naked_single: a single removal is not reported.
naked_single_off_by_one(ts) ==
    LET st == NsGroups([tiles |-> ts, events |-> <<>>, count |-> 0], 1)
    IN  [tiles |-> st.tiles, events |-> st.events, ret |-> st.count > 1]

\* Faulty variant of naked_single: progress is reported on every pass.
naked_single_always_true(ts) ==
    LET st == NsGroups([tiles |-> ts, events |-> <<>>, count |-> 0], 1)
    IN  [tiles |-> st.tiles, events |-> st.events, ret |-> st.count >= 0]

\* Faulty variant of naked_single: the first group is passed over.
naked_single_skip_first_group(ts) ==
    LET st == NsGroups([tiles |-> ts, events |-> <<>>, count |-> 0], 2)
    IN  [tiles |-> st.tiles, events |-> st.events, ret |-> st.count > 0]

\* Board.naked_single: one pass over all groups.
naked_single(ts) ==
    LET st == NsGroups([tiles |-> ts, events |-> <<>>, count |-> 0], 1)
    IN  [tiles |-> st.tiles, events |-> st.events, ret |-> st.count > 0]

\* Sum of len(tile.candidates) over all tiles.
RECURSIVE SumCandidates(_, _)
SumCandidates(ts, ps) ==
    IF ps = {} THEN 0
    ELSE LET p == CHOOSE q \in ps : TRUE
         IN  Cardinality(ts[p].candidates) + SumCandidates(ts, ps \ {p})

TotalCandidates(ts) == SumCandidates(ts, Pos)

(***************************************************************************)
(* Tile-level calls on the probe tile                                      *)
(***************************************************************************)
SolveIdle == UNCHANGED <<groups, pc, progress, passes, entry, ac, bf>>

AddListener(l) ==
    /\ pc = "idle"
    /\ Len(listeners[ProbePos]) < MaxListeners
    /\ listeners' = [listeners EXCEPT ![ProbePos] = Append(@, l)]
    /\ events' = <<>>
    /\ call' = [op |-> "add_listener", pos |-> ProbePos, arg |-> l]
    /\ ret' = "None"
    /\ pre' = tiles
    /\ prev' = call
    /\ UNCHANGED tiles
    /\ SolveIdle

SetValue(value) ==
    /\ pc = "idle"
    /\ LET r == set_value(ProbePos, value)
       IN  /\ tiles' = [tiles EXCEPT ![ProbePos] = r.tile]
           /\ events' = r.events
    /\ call' = [op |-> "set_value", pos |-> ProbePos, arg |-> value]
    /\ ret' = "None"
    /\ pre' = tiles
    /\ prev' = call
    /\ UNCHANGED listeners
    /\ SolveIdle

RemoveCandidates(used_values) ==
    /\ pc = "idle"
    /\ LET r == remove_candidates(ProbePos, tiles[ProbePos], used_values)
       IN  /\ tiles' = [tiles EXCEPT ![ProbePos] = r.tile]
           /\ events' = r.events
           /\ ret' = Bool(r.ret)
    /\ call' = [op |-> "remove_candidates", pos |-> ProbePos, arg |-> used_values]
    /\ pre' = tiles
    /\ prev' = call
    /\ UNCHANGED listeners
    /\ SolveIdle

(***************************************************************************)
(* Board-level calls                                                       *)
(***************************************************************************)
\* The solution grid the example puzzles are cut from.
Solution ==
    << <<"1", "2", "3", "4">>,
       <<"3", "4", "1", "2">>,
       <<"2", "1", "4", "3">>,
       <<"4", "3", "2", "1">> >>

EmptyRow == <<".", ".", ".", ".">>

\* The solution with some of its rows blanked (all of them: the empty grid).
RowCuts ==
    { [i \in 1 .. NROWS |-> IF i \in keep THEN Solution[i] ELSE EmptyRow] :
        keep \in SUBSET (1 .. NROWS) }

\* Arguments given to set_tiles: rows as strings (sequences of characters).
WellFormedInputs ==
    RowCuts \cup
    {
      << <<".", "2", "3", "4">>, Solution[2], Solution[3], Solution[4] >>,
      << <<".", "2", "3", "4">>, Solution[2], Solution[3], <<"4", "3", "2", ".">> >>,
      << <<"1", "2", ".", ".">>, <<".", ".", ".", "3">>, EmptyRow, EmptyRow >>,
      << <<"1", "2", "3", ".">>, <<".", ".", ".", "4">>, EmptyRow, EmptyRow >>,
      << <<"1", ".", ".", ".">>, <<".", ".", "2", ".">>,
         <<".", "3", ".", ".">>, <<".", ".", ".", "4">> >>,
      << <<"1", ".", ".", ".">>, EmptyRow,
         <<".", "3", ".", ".">>, <<".", ".", ".", "4">> >>,
      << <<"1", ".", "3", ".">>, EmptyRow,
         <<".", ".", "1", ".">>, <<".", "2", ".", ".">> >>,
      << <<"1", ".", "1", ".">>, EmptyRow, EmptyRow, EmptyRow >>,
      << <<"1", ".", ".", ".">>, EmptyRow, <<"1", ".", ".", ".">>, EmptyRow >>,
      << <<"1", ".", ".", ".">>, <<".", "1", ".", ".">>, EmptyRow, EmptyRow >>,
      << EmptyRow, <<".", ".", ".", "2">>, EmptyRow, <<".", ".", ".", "2">> >>,
      << EmptyRow, EmptyRow, <<".", ".", "3", ".">>, <<".", ".", ".", "3">> >> }

\* Too few rows, a short row, too many rows and columns, a foreign symbol.
MalformedInputs ==
    { << Solution[1], Solution[2] >>,
      << Solution[1], <<"3", "4", "1">>, Solution[3], Solution[4] >>,
      << <<"1", "2", "3", "4", "1">>, Solution[2], Solution[3], Solution[4], EmptyRow >>,
      << <<"1", BadSymbol, "3", "4">>, Solution[2], Solution[3], Solution[4] >> }

TileValueInputs == WellFormedInputs \cup MalformedInputs

TileIdle == UNCHANGED <<groups, listeners, prev, ac, bf>>

\* A call other than solve: the record of the last solve is dropped.
SolveForgotten ==
    /\ pc' = "idle"
    /\ progress' = FALSE
    /\ passes' = 0
    /\ entry' = NewTiles

SetTiles(tile_values) ==
    /\ pc = "idle"
    /\ LET r == set_tiles(tiles, tile_values)
       IN  /\ tiles' = r.tiles
           /\ events' = r.events
           /\ ret' = r.ret
    /\ call' = [op |-> "set_tiles", pos |-> NoPos, arg |-> tile_values]
    /\ pre' = tiles'
    /\ SolveForgotten
    /\ TileIdle

\* board.set_tiles(str(board).split("\n"))
RoundTrip ==
    /\ pc = "idle"
    /\ LET rows == SplitString(Board_str(tiles), "\n", <<>>)
           r == set_tiles(tiles, rows)
       IN  /\ tiles' = r.tiles
           /\ events' = r.events
           /\ ret' = r.ret
           /\ call' = [op |-> "round_trip", pos |-> NoPos, arg |-> rows]
    /\ pre' = tiles
    /\ SolveForgotten
    /\ TileIdle

IsConsistent ==
    /\ pc = "idle"
    /\ ret' = Bool(is_consistent(tiles))
    /\ events' = <<>>
    /\ call' = [op |-> "is_consistent", pos |-> NoPos, arg |-> UNKNOWN]
    /\ pre' = tiles
    /\ UNCHANGED tiles
    /\ SolveForgotten
    /\ TileIdle

NakedSingle ==
    /\ pc = "idle"
    /\ LET r == naked_single(tiles)
       IN  /\ tiles' = r.tiles
           /\ events' = r.events
           /\ ret' = Bool(r.ret)
    /\ call' = [op |-> "naked_single", pos |-> NoPos, arg |-> UNKNOWN]
    /\ pre' = tiles
    /\ SolveForgotten
    /\ TileIdle

\* Board.solve is called: progress = True
SolveCall ==
    /\ pc = "idle"
    /\ pc' = "solve"
    /\ progress' = TRUE
    /\ passes' = 0
    /\ entry' = tiles
    /\ events' = <<>>
    /\ call' = [op |-> "solve", pos |-> NoPos, arg |-> UNKNOWN]
    /\ ret' = "running"
    /\ pre' = tiles
    /\ UNCHANGED tiles
    /\ TileIdle

\* while progress: progress = self.naked_single()
SolvePass ==
    /\ pc = "solve"
    /\ progress
    /\ LET r == naked_single(tiles)
       IN  /\ tiles' = r.tiles
           /\ events' = r.events
           /\ ret' = Bool(r.ret)
           /\ progress' = r.ret
    /\ passes' = passes + 1
    /\ call' = [op |-> "naked_single", pos |-> NoPos, arg |-> UNKNOWN]
    /\ pre' = tiles
    /\ UNCHANGED <<pc, entry>>
    /\ TileIdle

\* the loop is left; return (None)
SolveReturn ==
    /\ pc = "solve"
    /\ ~progress
    /\ pc' = "idle"
    /\ call' = [op |-> "solve", pos |-> NoPos, arg |-> UNKNOWN]
    /\ ret' = "None"
    /\ events' = <<>>
    /\ pre' = tiles
    /\ UNCHANGED <<tiles, progress, passes, entry>>
    /\ TileIdle

(***************************************************************************)
(* alphacode (src/Week_1/alphacode.py)                                     *)
(***************************************************************************)
\* Largest pin of the range of arguments.
MaxPin == 10100

\* The arguments: a range around zero, and the pins of the tests.
PinInputs ==
    (-3 .. MaxPin) \cup {-52, -42, 98765, 987654, 547698, 1234567, 42424242}

vowels == <<"a", "e", "i", "o", "u">>

consonants ==
    <<"b", "c", "d", "f", "g", "h", "j", "k", "l", "m",
      "n", "p", "q", "r", "s", "t", "v", "w", "y", "z">>

\* None as a result of alphacode, apart from every string of letters.
AlphaNone == <<"None">>

\* mnemonic[::-1]
Reversed(str) == [i \in 1 .. Len(str) |-> str[Len(str) + 1 - i]]

\* Faulty variant of the loop condition: while pin != 0.
alpha_loop_nonzero(pin) == pin # 0

\* while pin > 0
alpha_loop(pin) == pin > 0

\* Faulty variant of the loop body: the consonant is appended before the
\* vowel.
alpha_body_consonant_first(pin, mnemonic) ==
    LET i == pin % 100
        remainder == i % 5
        quotient == i \div 5
    IN  [pin |-> pin \div 100,
         mnemonic |-> mnemonic \o <<consonants[quotient + 1], vowels[remainder + 1]>>]

\* One iteration of the loop of alphacode (lists are indexed from 0).
alpha_body(pin, mnemonic) ==
    LET i == pin % 100
        remainder == i % 5
        quotient == i \div 5
    IN  [pin |-> pin \div 100,
         mnemonic |-> mnemonic \o <<vowels[remainder + 1], consonants[quotient + 1]>>]

\* if pin < 1: return mnemonic[::-1]   (otherwise the function ends: None)
alpha_return(pin, mnemonic) ==
    IF pin < 1 THEN Reversed(mnemonic) ELSE AlphaNone

AlphaIdle ==
    [pc |-> "idle", arg |-> 0, pin |-> 0, before |-> 0, iters |-> 0,
     mnemonic |-> <<>>, ret |-> AlphaNone]

SudokuIdle ==
    UNCHANGED <<tiles, groups, listeners, events, call, ret, pre, pc, progress,
                passes, entry, prev>>

\* alphacode(pin) is called: mnemonic = ''
AlphaCall ==
    /\ ac.pc = "idle"
    /\ \E pin \in PinInputs :
          ac' = [pc |-> "loop", arg |-> pin, pin |-> pin, before |-> pin,
                 iters |-> 0, mnemonic |-> <<>>, ret |-> AlphaNone]
    /\ UNCHANGED bf
    /\ SudokuIdle

\* one iteration of while pin > 0
AlphaLoop ==
    /\ ac.pc = "loop"
    /\ alpha_loop(ac.pin)
    /\ LET r == alpha_body(ac.pin, ac.mnemonic)
       IN  ac' = [ac EXCEPT !.pin = r.pin, !.mnemonic = r.mnemonic,
                            !.before = ac.pin, !.iters = ac.iters + 1]
    /\ UNCHANGED bf
    /\ SudokuIdle

\* the loop is left and alphacode returns
AlphaReturn ==
    /\ ac.pc = "loop"
    /\ ~alpha_loop(ac.pin)
    /\ ac' = [ac EXCEPT !.pc = "done", !.ret = alpha_return(ac.pin, ac.mnemonic)]
    /\ UNCHANGED bf
    /\ SudokuIdle

(***************************************************************************)
(* BitField (src/bitfields/bitfield.py and src/bitfields2/bitfield.py)     *)
(***************************************************************************)
\* Largest field value and largest word of the ranges of arguments.
MaxField == 22
MaxWord == 260

\* The bit fields <<from_bit, to_bit>>: BitField(0,3), BitField(4,7) of the
\* docstrings, and one of three bits.
BitFields == {<<0, 3>>, <<4, 7>>, <<2, 4>>}

FieldInputs == 0 .. MaxField

\* A range of words, and words with bits on both sides of every field.
WordInputs == (0 .. MaxWord) \cup {496, 1023, 4080}

RECURSIVE Pow2(_)
\* 2**n
Pow2(n) == IF n = 0 THEN 1 ELSE 2 * Pow2(n - 1)

RECURSIVE BitAnd(_, _)
\* a & b on non-negative integers
BitAnd(a, b) ==
    IF a = 0 \/ b = 0 THEN 0
    ELSE (a % 2) * (b % 2) + 2 * BitAnd(a \div 2, b \div 2)

RECURSIVE BitOr(_, _)
\* a | b on non-negative integers
BitOr(a, b) ==
    IF a = 0 THEN b
    ELSE IF b = 0 THEN a
    ELSE (IF a % 2 = 1 \/ b % 2 = 1 THEN 1 ELSE 0) + 2 * BitOr(a \div 2, b \div 2)

RECURSIVE BitXor(_, _)
\* a ^ b on non-negative integers
BitXor(a, b) ==
    IF a = 0 THEN b
    ELSE IF b = 0 THEN a
    ELSE (IF a % 2 = b % 2 THEN 0 ELSE 1) + 2 * BitXor(a \div 2, b \div 2)

\* a << n and a >> n on non-negative integers
ShiftLeft(a, n) == a * Pow2(n)

ShiftRight(a, n) == a \div Pow2(n)

\* self.width = 2**(self.to_bit + 1)   (the same in both versions)
BitField_width(to_bit) == Pow2(to_bit + 1)

\* self.mask = self.width - (2**from_bit)   (the same in both versions)
BitField_mask(from_bit, to_bit) == BitField_width(to_bit) - Pow2(from_bit)

\* BitField.insert of src/bitfields/bitfield.py
bitfields_insert(low, high, field, word) ==
    LET width == BitField_width(high)
        mask == BitField_mask(low, high)
    IN  IF field > width THEN BitAnd(field, mask)
        ELSE IF word > width THEN BitXor(word, mask)
        ELSE BitAnd(BitOr(word, field), mask)

\* BitField.extract of src/bitfields/bitfield.py
bitfields_extract(low, high, word) ==
    LET width == BitField_width(high)
        mask == BitField_mask(low, high)
    IN  IF word > width THEN BitAnd(word, mask)
        ELSE IF word < width THEN ShiftRight(word, low)
        ELSE BitAnd(word, mask)

\* BitField.insert of src/bitfields2/bitfield.py:
\* field << self.from_bit & self.mask | word, that is ((field << from_bit) & mask) | word
bitfields2_insert(from_bit, to_bit, field, word) ==
    BitOr(BitAnd(ShiftLeft(field, from_bit), BitField_mask(from_bit, to_bit)), word)

\* BitField.extract of src/bitfields2/bitfield.py:
\* word >> self.from_bit & self.mask, that is (word >> from_bit) & mask
bitfields2_extract(from_bit, to_bit, word) ==
    BitAnd(ShiftRight(word, from_bit), BitField_mask(from_bit, to_bit))

\* The two versions of the module.
Versions == {"bitfields", "bitfields2"}

insert(version, b, field, word) ==
    IF version = "bitfields" THEN bitfields_insert(b[1], b[2], field, word)
    ELSE bitfields2_insert(b[1], b[2], field, word)

extract(version, b, word) ==
    IF version = "bitfields" THEN bitfields_extract(b[1], b[2], word)
    ELSE bitfields2_extract(b[1], b[2], word)

BitIdle ==
    [op |-> "none", version |-> "none", from_bit |-> 0, to_bit |-> 0,
     field |-> 0, word |-> 0, ret |-> 0, inserted |-> FALSE]

OthersIdle ==
    /\ UNCHANGED ac
    /\ SudokuIdle

\* BitField(from_bit, to_bit).insert(field, word)
BitInsert ==
    /\ bf.op = "none"
    /\ \E version \in Versions, b \in BitFields, field \in FieldInputs,
          word \in WordInputs :
          bf' = [op |-> "insert", version |-> version, from_bit |-> b[1],
                 to_bit |-> b[2], field |-> field, word |-> word,
                 ret |-> insert(version, b, field, word), inserted |-> FALSE]
    /\ OthersIdle

\* BitField(from_bit, to_bit).extract(word)
BitExtract ==
    /\ bf.op = "none"
    /\ \E version \in Versions, b \in BitFields, word \in WordInputs :
          bf' = [op |-> "extract", version |-> version, from_bit |-> b[1],
                 to_bit |-> b[2], field |-> 0, word |-> word,
                 ret |-> extract(version, b, word), inserted |-> FALSE]
    /\ OthersIdle

\* extract(insert(field, word)) on the same BitField
BitExtractInserted ==
    /\ bf.op = "insert"
    /\ bf' = [bf EXCEPT !.op = "extract", !.word = bf.ret,
                        !.ret = extract(bf.version, <<bf.from_bit, bf.to_bit>>, bf.ret),
                        !.inserted = TRUE]
    /\ OthersIdle

(***************************************************************************)
(* Specifications                                                          *)
(***************************************************************************)
\* board = Board()
Init ==
    /\ tiles = NewTiles
    /\ groups = BuildGroups
    /\ listeners = [p \in Pos |-> <<>>]
    /\ events = <<>>
    /\ call = [op |-> "Board", pos |-> NoPos, arg |-> UNKNOWN]
    /\ ret = "None"
    /\ pre = NewTiles
    /\ pc = "idle"
    /\ progress = FALSE
    /\ passes = 0
    /\ entry = NewTiles
    /\ prev = [op |-> "Board", pos |-> NoPos, arg |-> UNKNOWN]
    /\ ac = AlphaIdle
    /\ bf = BitIdle

TileNext ==
    \/ \E l \in ListenerIds : AddListener(l)
    \/ \E value \in CHOICES \cup {UNKNOWN, BadSymbol} : SetValue(value)
    \/ \E used_values \in SUBSET CHOICES : RemoveCandidates(used_values)

\* The tile-level interface exercised on one tile of a constructed board.
TileSpec == Init /\ [][TileNext]_vars

Next ==
    \/ \E tile_values \in TileValueInputs : SetTiles(tile_values)
    \/ RoundTrip
    \/ IsConsistent
    \/ NakedSingle
    \/ SolveCall
    \/ SolvePass
    \/ SolveReturn

\* The board-level interface: set_tiles, str, is_consistent, naked_single, solve.
Spec == Init /\ [][Next]_vars

AlphaNext ==
    \/ AlphaCall
    \/ AlphaLoop
    \/ AlphaReturn

\* alphacode called on integer pins.
AlphaSpec == Init /\ [][AlphaNext]_vars

BitNext ==
    \/ BitInsert
    \/ BitExtract
    \/ BitExtractInserted

\* insert and extract of both versions of BitField.
BitSpec == Init /\ [][BitNext]_vars

(***************************************************************************)
(* Properties                                                              *)
(***************************************************************************)
SameBlock(p, q) ==
    /\ p[1] \div ROOT = q[1] \div ROOT
    /\ p[2] \div ROOT = q[2] \div ROOT

\* Two different cells of one row, column or block.
Peers(p, q) == p # q /\ (p[1] = q[1] \/ p[2] = q[2] \/ SameBlock(p, q))

\* Some row, column or block holds a concrete value twice.
HasRepeat(ts) ==
    \E p, q \in Pos :
        Peers(p, q) /\ ts[p].value \in CHOICES /\ ts[p].value = ts[q].value

IsComplete(ts) == \A p \in Pos : ts[p].value # UNKNOWN

\* The puzzle ts has Solution as a solution.
CutFromSolution(ts) ==
    \A p \in Pos : ts[p].value \in {UNKNOWN, Solution[p[1] + 1][p[2] + 1]}

\* Number of notify calls the last call made on the listener registered in
\* slot of the tile at pos, each carrying that tile and kind TileChanged.
Delivered(pos, slot) ==
    Cardinality({i \in 1 .. Len(events) :
        /\ events[i].slot = slot
        /\ events[i].listener = listeners[pos][slot]
        /\ events[i].tile = pos
        /\ events[i].kind = "TileChanged"})

EachListenerGot(pos, n) ==
    /\ Len(events) = n * Len(listeners[pos])
    /\ \A slot \in 1 .. Len(listeners[pos]) : Delivered(pos, slot) = n

SolveReturned == call.op = "solve" /\ pc = "idle"

\* C1: when Board.solve has returned, it returned true if and only if the
\* grid is complete and consistent; and for a puzzle that has a solution
\* it returned true and left a complete, consistent grid.
C1_SolveTrueIffSolved ==
    SolveReturned =>
        /\ (ret = "True") <=> (IsComplete(tiles) /\ ~HasRepeat(tiles))
        /\ CutFromSolution(entry) =>
              (ret = "True" /\ IsComplete(tiles) /\ ~HasRepeat(tiles))

\* C2: after any sequence of set_value and remove_candidates calls, a tile
\* whose value is a concrete symbol has exactly that symbol as candidates.
C2_ValueSetImpliesSingleton ==
    \A p \in Pos :
        tiles[p].value \in CHOICES => tiles[p].candidates = {tiles[p].value}

\* C3: is_consistent returns false if and only if some row, column or block
\* holds the same concrete value on two tiles (unset tiles never count).
C3_IsConsistentIffNoRepeat ==
    call.op = "is_consistent" =>
        /\ ret \in {"True", "False"}
        /\ (ret = "False") <=> HasRepeat(tiles)

C3_Witness ==
    /\ call.op = "is_consistent"
    /\ ret = "False"
    /\ \E p \in Pos : tiles[p].value = UNKNOWN

\* At the start of a pass some unset tile has a candidate equal to a concrete
\* value of a tile it shares a group with.
CanEliminate(ts) ==
    \E p, q \in Pos :
        /\ Peers(p, q)
        /\ ts[p].value = UNKNOWN
        /\ ts[q].value \in CHOICES
        /\ ts[q].value \in ts[p].candidates

\* C4: one naked_single pass returns true if and only if the pass removed a
\* candidate from some tile, if and only if at the start of the pass some
\* unset tile had a candidate equal to a concrete value in one of its
\* groups; on a grid without concrete values it returns false and changes
\* nothing.
C4_NakedSingleTrueIffRemoved ==
    call.op = "naked_single" =>
        /\ (ret = "True") <=>
              (\E p \in Pos : tiles[p].candidates # pre[p].candidates)
        /\ (ret = "True") <=> CanEliminate(pre)
        /\ (\A p \in Pos : tiles[p].candidates \subseteq pre[p].candidates)
        /\ (\A p \in Pos : pre[p].value = UNKNOWN) =>
              (ret = "False" /\ tiles = pre)

C4_Witness ==
    /\ call.op = "naked_single"
    /\ ret = "True"
    /\ \E p \in Pos : pre[p].value = UNKNOWN /\ tiles[p].value \in CHOICES
    /\ \E p \in Pos : tiles[p].value = UNKNOWN
                      /\ tiles[p].candidates # pre[p].candidates

\* C5: remove_candidates(used_values) leaves the candidates equal to the old
\* candidates minus used_values; when no member of used_values was a
\* candidate it returns false, changes nothing and notifies nobody; when a
\* candidate was removed it returns true.
C5_RemoveCandidatesDifference ==
    call.op = "remove_candidates" =>
        LET old == pre[call.pos]
            new == tiles[call.pos]
        IN  /\ new.candidates = old.candidates \ call.arg
            /\ (old.candidates \cap call.arg = {}) =>
                  (ret = "False" /\ tiles = pre /\ events = <<>>)
            /\ (old.candidates \cap call.arg # {}) => ret = "True"

C5_Witness ==
    /\ call.op = "remove_candidates"
    /\ ret = "True"
    /\ tiles[call.pos].value = UNKNOWN
    /\ Cardinality(tiles[call.pos].candidates) = 2
    /\ Len(listeners[call.pos]) > 0

\* C6: when remove_candidates removes a candidate and exactly one candidate c
\* remains, the tile's value is c, its candidates are {c} and every listener
\* was notified twice; when the number of remaining candidates is not one,
\* the value is unchanged and every listener was notified once.
C6_RemoveCandidatesAutoSet ==
    (call.op = "remove_candidates"
        /\ pre[call.pos].candidates \cap call.arg # {}) =>
        LET old == pre[call.pos]
            new == tiles[call.pos]
            rest == old.candidates \ call.arg
        IN  IF Cardinality(rest) = 1
            THEN /\ new.value \in rest
                 /\ new.candidates = {new.value}
                 /\ EachListenerGot(call.pos, 2)
            ELSE /\ new.value = old.value
                 /\ EachListenerGot(call.pos, 1)

C6_Witness ==
    /\ call.op = "remove_candidates"
    /\ pre[call.pos].value = UNKNOWN
    /\ Cardinality(pre[call.pos].candidates) = 3
    /\ tiles[call.pos].value \in CHOICES
    /\ Len(listeners[call.pos]) = 2
    /\ Len(events) = 4

\* C7: set_value(v) with v in the alphabet sets value v and candidates {v};
\* with the unset placeholder it sets value unset and the full alphabet as
\* candidates; either way every listener is notified exactly once, whatever
\* the tile was before.
C7_SetValue ==
    (call.op = "set_value" /\ call.arg \in CHOICES \cup {UNKNOWN}) =>
        /\ tiles[call.pos].value = call.arg
        /\ tiles[call.pos].candidates =
              (IF call.arg = UNKNOWN THEN CHOICES ELSE {call.arg})
        /\ EachListenerGot(call.pos, 1)

C7_Witness ==
    /\ call.op = "set_value"
    /\ call.arg = UNKNOWN
    /\ pre[call.pos].value \in CHOICES
    /\ pre[call.pos].candidates = {}
    /\ Len(listeners[call.pos]) = 2

\* C8: during a naked_single pass the total number of candidates never
\* increases and it decreases in every pass that returns true; the number
\* of passes solve makes is at most the total at its start plus one.
C8_PropagationBounded ==
    /\ call.op = "naked_single" =>
          /\ TotalCandidates(tiles) <= TotalCandidates(pre)
          /\ ret = "True" => TotalCandidates(tiles) < TotalCandidates(pre)
    /\ (pc = "solve" \/ SolveReturned) =>
          /\ passes <= (TotalCandidates(entry) - TotalCandidates(tiles)) + 1
          /\ passes <= TotalCandidates(entry) + 1

C8_Witness ==
    /\ SolveReturned
    /\ passes >= 4
    /\ TotalCandidates(tiles) < TotalCandidates(entry)

\* C9 as claimed: the round trip through the row strings reproduces every
\* tile's value and candidates.
C9_RoundTripIdentity ==
    call.op = "round_trip" => tiles = pre

\* C9 as amended: the round trip reproduces every tile's value, and leaves
\* the candidates derived from the value: {value} on a set tile, the full
\* alphabet on an unset tile.
C9_RoundTripValues ==
    call.op = "round_trip" =>
        /\ ret = "None"
        /\ \A p \in Pos :
              /\ tiles[p].value = pre[p].value
              /\ tiles[p].candidates =
                    (IF pre[p].value = UNKNOWN THEN CHOICES ELSE {pre[p].value})

C9_Witness ==
    /\ call.op = "round_trip"
    /\ \E p \in Pos : tiles[p].value \in CHOICES
    /\ \E p \in Pos : /\ pre[p].value = UNKNOWN
                      /\ pre[p].candidates # CHOICES
                      /\ tiles[p].candidates = CHOICES

\* The argument differs from the grid in its number of rows or the length of
\* a row, or holds a symbol that is neither in the alphabet nor the unset
\* placeholder.
Malformed(tile_values) ==
    \/ Len(tile_values) # NROWS
    \/ \E r \in 1 .. Len(tile_values) :
          \/ Len(tile_values[r]) # NCOLS
          \/ \E c \in 1 .. Len(tile_values[r]) :
                tile_values[r][c] \notin CHOICES \cup {UNKNOWN}

\* C10: set_tiles with a malformed argument signals a failure and does not
\* complete normally.
C10_MalformedRejected ==
    (call.op = "set_tiles" /\ Malformed(call.arg)) => ret # "None"

\* C11: every notify_all of a set_value or remove_candidates call invokes
\* notify exactly once on each listener registered so far, in the order the
\* listeners were added; the deliveries of a call are complete when the
\* call returns (one round for set_value, at most two for
\* remove_candidates).
C11_NotifyAllInOrder ==
    call.op \in {"set_value", "remove_candidates"} =>
        LET ls == listeners[call.pos]
            n == Len(ls)
        IN  /\ \E rounds \in 0 .. 2 :
                  /\ Len(events) = rounds * n
                  /\ call.op = "set_value" => rounds = 1
            /\ \A i \in 1 .. Len(events) :
                  /\ events[i].slot = ((i - 1) % n) + 1
                  /\ events[i].listener = ls[((i - 1) % n) + 1]
                  /\ events[i].tile = call.pos

C11_Witness ==
    /\ call.op = "remove_candidates"
    /\ listeners[call.pos] = <<"L2", "L1">>
    /\ Len(events) = 4

\* C12: a second set_value(v) right after set_value(v) leaves the tile's
\* value and candidates as the first call left them, and each of the two
\* calls notifies every listener once (two notifications in all).
C12_SetValueIdempotent ==
    [][(/\ call.op = "set_value"
        /\ call'.op = "set_value"
        /\ call'.arg = call.arg)
       => /\ tiles' = tiles
          /\ listeners' = listeners
          /\ Len(events) = Len(listeners[call.pos])
          /\ Len(events') = Len(listeners[call.pos])
          /\ \A slot \in 1 .. Len(listeners[call.pos]) :
                /\ events[slot].slot = slot
                /\ events'[slot].slot = slot]_vars

C12_Witness ==
    /\ call.op = "set_value"
    /\ prev.op = "set_value"
    /\ prev.arg = call.arg
    /\ call.arg \in CHOICES
    /\ tiles = pre
    /\ Len(listeners[call.pos]) = 2
    /\ Len(events) = 2

Syllable(d) == <<consonants[(d \div 5) + 1], vowels[(d % 5) + 1]>>

RECURSIVE Syllables(_)
\* The syllables of the base-100 digits of n > 0, most significant first.
Syllables(n) ==
    IF n < 100 THEN Syllable(n)
    ELSE Syllables(n \div 100) \o Syllable(n % 100)

RECURSIVE Digits100(_)
\* Number of base-100 digits of n > 0.
Digits100(n) == IF n < 100 THEN 1 ELSE 1 + Digits100(n \div 100)

\* C13: for a positive pin, alphacode(pin) is the concatenation, from the
\* most significant base-100 digit to the least, of consonants[d // 5]
\* followed by vowels[d % 5]; it has two letters per base-100 digit
\* (4327 gives lohi, 98765 gives cuwira).
C13_AlphacodeSyllables ==
    (ac.pc = "done" /\ ac.arg > 0) =>
        /\ ac.ret = Syllables(ac.arg)
        /\ Len(ac.ret) = 2 * Digits100(ac.arg)
        /\ ac.arg = 4327 => ac.ret = <<"l", "o", "h", "i">>
        /\ ac.arg = 98765 => ac.ret = <<"c", "u", "w", "i", "r", "a">>

C13_Witness ==
    /\ ac.pc = "done"
    /\ ac.arg = 98765
    /\ ac.iters = 3
    /\ ac.ret = <<"c", "u", "w", "i", "r", "a">>

\* C14: for pin <= 0 alphacode returns the empty string without entering
\* the loop; and every iteration of the loop leaves pin strictly smaller
\* (pin // 100) and not negative, so the loop ends.
C14_AlphacodeNonPositive ==
    /\ ac.arg <= 0 =>
          /\ ac.iters = 0
          /\ ac.pc = "done" => ac.ret = <<>>
    /\ ac.iters > 0 =>
          /\ ac.pin < ac.before
          /\ ac.pin = ac.before \div 100
          /\ ac.pin >= 0
          /\ ac.iters <= ac.arg
    /\ ac.pc = "done" => ac.ret # AlphaNone

C14_Witness ==
    /\ ac.pc = "done"
    /\ ac.arg = -52
    /\ ac.iters = 0
    /\ ac.ret = <<>>

\* Number of bits of the field of the last BitField call.
FieldBits == bf.to_bit - bf.from_bit + 1

\* word with the bits from_bit..to_bit replaced by the low bits of field
Replaced(from_bit, bits, field, word) ==
    word - ((word \div Pow2(from_bit)) % Pow2(bits)) * Pow2(from_bit)
         + (field % Pow2(bits)) * Pow2(from_bit)

\* C15: in both versions insert(field, word) is word with the bits
\* from_bit..to_bit replaced by the low bits of field: what does not fit is
\* dropped, the old contents are overwritten, the other bits of word are
\* unchanged (BitField(4,7).insert(21, 0) = 5 << 4).
C15_InsertReplacesField ==
    bf.op = "insert" =>
        bf.ret = Replaced(bf.from_bit, FieldBits, bf.field, bf.word)

\* C16: in both versions extract(word) is (word >> from_bit) mod
\* 2^(to_bit - from_bit + 1), and extract(insert(f, w)) is f mod
\* 2^(to_bit - from_bit + 1).
C16_ExtractFieldValue ==
    bf.op = "extract" =>
        /\ bf.ret = (bf.word \div Pow2(bf.from_bit)) % Pow2(FieldBits)
        /\ bf.inserted => bf.ret = bf.field % Pow2(FieldBits)

\* The set of tiles of a group.
Members(group) == {group[k] : k \in 1 .. Len(group)}

\* Size of the alphabet.
S == Cardinality(CHOICES)

\* C17: the groups list holds 3*S groups: the ROOT*ROOT blocks in block-row
\* major order, then the S rows, then the S columns; every group has S
\* distinct tiles, and every tile is in exactly one block group, one row
\* group and one column group.
C17_GroupsStructure ==
    /\ Len(groups) = 3 * S
    /\ ROOT * ROOT = S
    /\ \A b \in 0 .. S - 1 :
          Members(groups[b + 1]) =
              {p \in Pos : /\ p[1] \div ROOT = b \div ROOT
                           /\ p[2] \div ROOT = b % ROOT}
    /\ \A r \in 0 .. S - 1 :
          Members(groups[S + r + 1]) = {p \in Pos : p[1] = r}
    /\ \A c \in 0 .. S - 1 :
          Members(groups[2 * S + c + 1]) = {p \in Pos : p[2] = c}
    /\ \A g \in 1 .. Len(groups) :
          /\ Len(groups[g]) = S
          /\ Cardinality(Members(groups[g])) = S
    /\ \A p \in Pos :
          /\ Cardinality({g \in 1 .. S : p \in Members(groups[g])}) = 1
          /\ Cardinality({g \in S + 1 .. 2 * S : p \in Members(groups[g])}) = 1
          /\ Cardinality({g \in 2 * S + 1 .. 3 * S : p \in Members(groups[g])}) = 1

C17_Witness ==
    /\ call.op = "Board"
    /\ Len(groups) = 12
    /\ groups[2] = <<<<0, 2>>, <<0, 3>>, <<1, 2>>, <<1, 3>>>>
    /\ groups[6] = <<<<1, 0>>, <<1, 1>>, <<1, 2>>, <<1, 3>>>>
    /\ groups[12] = <<<<0, 3>>, <<1, 3>>, <<2, 3>>, <<3, 3>>>>

\* The rows: the arrangements of the alphabet over the columns.
RowPerms ==
    {f \in [0 .. NCOLS - 1 -> CHOICES] :
        \A i, j \in 0 .. NCOLS - 1 : i # j => f[i] # f[j]}

\* The bands of ROOT = 2 rows in which no block repeats a value.
Bands ==
    {band \in RowPerms \X RowPerms :
        \A i, j \in 0 .. NCOLS - 1 :
            i \div ROOT = j \div ROOT => band[1][i] # band[2][j]}

\* The complete grids in which no row, column or block repeats a value:
\* two bands, one above the other.
CompleteGrids ==
    {T \in {[q \in Pos |-> bands[(q[1] \div ROOT) + 1][(q[1] % ROOT) + 1][q[2]]] :
                bands \in Bands \X Bands} :
        \A p, q \in Pos : Peers(p, q) => T[p] # T[q]}

\* The complete grid T agrees with every concrete value of ts and has, at
\* every unset tile, one of the tile's candidates.
Compatible(T, ts) ==
    \A p \in Pos :
        /\ ts[p].value \in CHOICES => T[p] = ts[p].value
        /\ ts[p].value = UNKNOWN => T[p] \in ts[p].candidates

\* C18: a complete, consistent grid that is compatible with the grid before
\* a naked_single pass is compatible with the grid after it, and likewise
\* from the call of solve to its return: values set automatically are the
\* grid's values and no tile loses the grid's value from its candidates.
C18_NakedSingleSound ==
    /\ call.op = "naked_single" =>
          \A T \in CompleteGrids : Compatible(T, pre) => Compatible(T, tiles)
    /\ SolveReturned =>
          \A T \in CompleteGrids : Compatible(T, entry) => Compatible(T, tiles)

C18_Witness ==
    /\ Cardinality(CompleteGrids) = 288
    /\ call.op = "naked_single"
    /\ ret = "True"
    /\ \E T \in CompleteGrids : Compatible(T, pre)
    /\ \E p \in Pos : pre[p].value = UNKNOWN /\ tiles[p].value \in CHOICES
    /\ \E p \in Pos : /\ tiles[p].value = UNKNOWN
                      /\ tiles[p].candidates # pre[p].candidates

\* The concrete values held by the tiles of a group.
Held(ts, group) == {v \in CHOICES : \E q \in Members(group) : ts[q].value = v}

\* C19: when the loop of Board.solve has stopped, in every group no unset
\* tile has among its candidates a concrete value held by a tile of the
\* group; and every tile that had a concrete value when solve was called
\* has the same value and candidates.
C19_SolveFixedPoint ==
    SolveReturned =>
        /\ \A g \in 1 .. Len(groups) : \A p \in Members(groups[g]) :
              tiles[p].value = UNKNOWN =>
                  tiles[p].candidates \cap Held(tiles, groups[g]) = {}
        /\ ~CanEliminate(tiles)
        /\ \A p \in Pos : entry[p].value \in CHOICES => tiles[p] = entry[p]

C19_Witness ==
    /\ SolveReturned
    /\ passes >= 3
    /\ \E p \in Pos : entry[p].value \in CHOICES
    /\ \E p \in Pos : entry[p].value = UNKNOWN /\ tiles[p].value \in CHOICES
    /\ \E p \in Pos : /\ tiles[p].value = UNKNOWN
                      /\ tiles[p].candidates # CHOICES

\* C20: in every state reached through the Board-level operations, and
\* between them, a tile's value is a concrete symbol if and only if its
\* candidates are exactly that one symbol; an unset tile never rests with a
\* single candidate, and the candidates are a subset of the alphabet.
C20_ValueIffSingleCandidate ==
    \A p \in Pos :
        /\ tiles[p].value \in CHOICES <=> Cardinality(tiles[p].candidates) = 1
        /\ tiles[p].value \in CHOICES => tiles[p].candidates = {tiles[p].value}
        /\ tiles[p].value \notin CHOICES =>
              /\ tiles[p].value = UNKNOWN
              /\ Cardinality(tiles[p].candidates) # 1
        /\ tiles[p].candidates \subseteq CHOICES

C20_Witness ==
    /\ pc = "solve"
    /\ passes >= 2
    /\ \E p \in Pos : entry[p].value = UNKNOWN /\ tiles[p].value \in CHOICES
    /\ \E p \in Pos : /\ tiles[p].value = UNKNOWN
                      /\ Cardinality(tiles[p].candidates) \in {0, 2, 3}

====
